---- MODULE Spec2Model ----
(***************************************************************************)
(* Model of Tracking_Tabelle.py: a Dash page with one form, one submit     *)
(* button and one callback, update_table_and_chart, that inserts the form  *)
(* values into the SQLite table 'tracking' and re-renders a table and a    *)
(* bar chart from all rows.                                                *)
(***************************************************************************)
EXTENDS Integers, Sequences, FiniteSets, TLC

\* ------------------------------------------------------------------ bounds
\* Most rows the table is let grow to, in the file left by an earlier run
\* and within a run.
MaxRows == 3
\* Most clicks counted by the button between two page loads.
MaxClicks == 3

\* ------------------------------------------------------------------ values
\* Python's None: an unset component value, a NULL cell.
None == "<None>"

\* No exception raised by the insert statement.
NoExc == "<no exception>"

\* Exception texts the insert statement can raise with.
Errors == {"database is locked", "disk I/O error"}

\* Column order of CREATE TABLE tracking (...); SELECT * returns this order.
Columns == <<"datum", "prozess", "status", "uhrzeit", "operator", "operation">>

\* Index of a column of the table.
Col(name) == CHOOSE i \in 1..Len(Columns) : Columns[i] = name

\* The component values right after the layout is served: date picker and
\* time input preset to the current date and time, everything else unset.
InitialForm ==
  [datum |-> "2024-05-01", uhrzeit |-> "08:30", prozess |-> None,
   Operator |-> None, status |-> None, Operation |-> None]

\* Component values the user can bring the form to.
Forms ==
  { InitialForm,
    [datum |-> None, uhrzeit |-> None, prozess |-> None,
     Operator |-> None, status |-> None, Operation |-> None],
    [datum |-> "2024-05-02", uhrzeit |-> "09:15", prozess |-> "Charge 7",
     Operator |-> "Houssam", status |-> "Erledigt", Operation |-> "PCR"],
    [datum |-> "2024-05-02", uhrzeit |-> "10:40", prozess |-> None,
     Operator |-> "Alex", status |-> "Ausstehend", Operation |-> "Cobas"] }

\* The row an INSERT stores for the six named bindings, in column order.
RowOf(b) ==
  [i \in 1..Len(Columns) |->
     CASE Columns[i] = "datum"     -> b.datum
       [] Columns[i] = "prozess"   -> b.prozess
       [] Columns[i] = "status"    -> b.status
       [] Columns[i] = "uhrzeit"   -> b.uhrzeit
       [] Columns[i] = "operator"  -> b.operator
       [] Columns[i] = "operation" -> b.operation]

\* Rows a database file can hold.
Rows ==
  { RowOf([datum |-> f.datum, prozess |-> f.prozess, status |-> f.status,
           uhrzeit |-> f.uhrzeit, operator |-> f.Operator,
           operation |-> f.Operation]) : f \in Forms }

\* Sequences of at most n elements of S.
SeqUpTo(S, n) == UNION { [1..k -> S] : k \in 0..n }

\* ------------------------------------------------------------------ state
VARIABLES
  running,    \* the process has run its module-level startup and serves
  tracking,   \* rows of table 'tracking' in tracking_data.db
  pageOpen,   \* a browser holds the page
  form,       \* current values of the six form components
  n_clicks,   \* n_clicks property of the submit button
  out,        \* <<children of table-container, figure of bar-chart>>
  last,       \* the latest invocation of the callback: its click count,
              \* the exception of its insert, whether it reloaded the rows
  calls,      \* invocations of the callback since startup, counted to 2
  sent,       \* component values of the submits of this run whose insert
              \* did not raise, in order
  dropped     \* rows the table held when startup dropped it

vars == <<running, tracking, pageOpen, form, n_clicks, out, last, calls,
          sent, dropped>>

\* ------------------------------------------------------------------ startup
\* Variant: CREATE TABLE IF NOT EXISTS without the DROP, which keeps the rows.
CreateIfNotExists(tbl) == tbl

\* DROP TABLE IF EXISTS tracking; CREATE TABLE tracking (...)
DropAndCreate(tbl) == <<>>

\* ------------------------------------------------------------------ callback
\* Variant: the statement is executed twice.
execute_insert_twice(tbl, datum, prozess, status, uhrzeit, operator, operation, exc) ==
  LET row == RowOf([datum |-> datum, prozess |-> prozess, status |-> status,
                    uhrzeit |-> uhrzeit, operator |-> operator,
                    operation |-> operation])
  IN  IF exc # NoExc
        THEN [table |-> tbl, raised |-> exc]
        ELSE [table |-> Append(Append(tbl, row), row), raised |-> NoExc]

\* Variant: the statement overwrites the latest row instead of adding one.
execute_insert_replace(tbl, datum, prozess, status, uhrzeit, operator, operation, exc) ==
  LET row == RowOf([datum |-> datum, prozess |-> prozess, status |-> status,
                    uhrzeit |-> uhrzeit, operator |-> operator,
                    operation |-> operation])
  IN  IF exc # NoExc
        THEN [table |-> tbl, raised |-> exc]
        ELSE [table |-> IF tbl = <<>> THEN <<row>>
                        ELSE [tbl EXCEPT ![Len(tbl)] = row],
              raised |-> NoExc]

\* connection.execute(text("INSERT INTO tracking (...) VALUES (...)"), {...})
\* exc is the exception the statement raises, NoExc when it raises none.
execute_insert(tbl, datum, prozess, status, uhrzeit, operator, operation, exc) ==
  IF exc # NoExc
    THEN [table |-> tbl, raised |-> exc]
    ELSE [table |-> Append(tbl,
                     RowOf([datum |-> datum, prozess |-> prozess,
                            status |-> status, uhrzeit |-> uhrzeit,
                            operator |-> operator, operation |-> operation])),
          raised |-> NoExc]

\* Variant: the query leaves out the latest row.
load_data_stale(tbl) ==
  [columns |-> Columns,
   rows |-> IF tbl = <<>> THEN tbl ELSE SubSeq(tbl, 1, Len(tbl) - 1)]

\* pd.read_sql("SELECT * FROM tracking", connection)
load_data(tbl) == [columns |-> Columns, rows |-> tbl]

\* df.empty
empty(df) == Len(df.rows) = 0

\* dbc.Table.from_dataframe(df, striped=True, bordered=True, hover=True)
from_dataframe(df) ==
  [kind |-> "Table", header |-> df.columns, body |-> df.rows,
   striped |-> TRUE, bordered |-> TRUE, hover |-> TRUE]

\* dbc.Alert(f"Fehler beim Einfügen der Daten: {e}", color="danger")
Alert(e) ==
  [kind |-> "Alert", children |-> <<"Fehler beim Einfügen der Daten: ", e>>,
   color |-> "danger"]

\* The figure {} .
EmptyFig == [kind |-> "empty"]

\* Variant: the bars are placed at the rows' operation.
bar_by_operation(df) ==
  [kind |-> "bar",
   x |-> [i \in 1..Len(df.rows) |-> df.rows[i][Col("operation")]],
   y |-> [i \in 1..Len(df.rows) |-> 1],
   title |-> "Anzahl der Einträge pro Arbeiter",
   xlabel |-> "Arbeiter", ylabel |-> "Anzahl der Einträge",
   barmode |-> "group"]

\* px.bar(df, x="operator", title=..., labels=...) and
\* fig.update_layout(barmode="group"): one bar of count 1 per row, at the
\* row's operator.
bar(df) ==
  [kind |-> "bar",
   x |-> [i \in 1..Len(df.rows) |-> df.rows[i][Col("operator")]],
   y |-> [i \in 1..Len(df.rows) |-> 1],
   title |-> "Anzahl der Einträge pro Arbeiter",
   xlabel |-> "Arbeiter", ylabel |-> "Anzahl der Einträge",
   barmode |-> "group"]

\* Variant: no try/except around the insert; its exception leaves the
\* callback.
update_without_try(tbl, clicks, datum, uhrzeit, operator, operation, status, prozess, exc) ==
  LET ins == IF clicks > 0
               THEN execute_insert(tbl, datum, prozess, status, uhrzeit,
                                   operator, operation, exc)
               ELSE [table |-> tbl, raised |-> NoExc]
      df == load_data(ins.table)
  IN  IF ins.raised # NoExc
        THEN [tracking |-> ins.table, children |-> None, figure |-> None,
              exc |-> ins.raised, loaded |-> FALSE, propagated |-> TRUE]
        ELSE [tracking |-> ins.table, children |-> from_dataframe(df),
              figure |-> IF ~empty(df) THEN bar(df) ELSE EmptyFig,
              exc |-> NoExc, loaded |-> TRUE, propagated |-> FALSE]

\* Variant: the except branch does not return; reload and redraw follow it.
update_fall_through(tbl, clicks, datum, uhrzeit, operator, operation, status, prozess, exc) ==
  LET ins == IF clicks > 0
               THEN execute_insert(tbl, datum, prozess, status, uhrzeit,
                                   operator, operation, exc)
               ELSE [table |-> tbl, raised |-> NoExc]
      df == load_data(ins.table)
  IN  [tracking |-> ins.table, children |-> from_dataframe(df),
       figure |-> IF ~empty(df) THEN bar(df) ELSE EmptyFig,
       exc |-> ins.raised, loaded |-> TRUE, propagated |-> FALSE]

\* Variant: the insert is attempted only when every field is filled, as the
\* comment above the guard announces.
update_validating(tbl, clicks, datum, uhrzeit, operator, operation, status, prozess, exc) ==
  LET filled == None \notin {datum, uhrzeit, operator, operation, status, prozess}
      ins == IF clicks > 0 /\ filled
               THEN execute_insert(tbl, datum, prozess, status, uhrzeit,
                                   operator, operation, exc)
               ELSE [table |-> tbl, raised |-> NoExc]
      df == load_data(ins.table)
  IN  IF ins.raised # NoExc
        THEN [tracking |-> ins.table, children |-> Alert(ins.raised),
              figure |-> EmptyFig, exc |-> ins.raised, loaded |-> FALSE,
              propagated |-> FALSE]
        ELSE [tracking |-> ins.table, children |-> from_dataframe(df),
              figure |-> IF ~empty(df) THEN bar(df) ELSE EmptyFig,
              exc |-> NoExc, loaded |-> TRUE, propagated |-> FALSE]

\* Variant: the rows are loaded before the insert.
update_load_first(tbl, clicks, datum, uhrzeit, operator, operation, status, prozess, exc) ==
  LET df == load_data(tbl)
      ins == IF clicks > 0
               THEN execute_insert(tbl, datum, prozess, status, uhrzeit,
                                   operator, operation, exc)
               ELSE [table |-> tbl, raised |-> NoExc]
  IN  IF ins.raised # NoExc
        THEN [tracking |-> ins.table, children |-> Alert(ins.raised),
              figure |-> EmptyFig, exc |-> ins.raised, loaded |-> FALSE,
              propagated |-> FALSE]
        ELSE [tracking |-> ins.table, children |-> from_dataframe(df),
              figure |-> IF ~empty(df) THEN bar(df) ELSE EmptyFig,
              exc |-> NoExc, loaded |-> TRUE, propagated |-> FALSE]

\* The callback. Its result: the table after it, the two outputs, the
\* exception its insert raised, whether it reloaded the rows, and whether an
\* exception left the callback.
update_table_and_chart(tbl, clicks, datum, uhrzeit, operator, operation, status, prozess, exc) ==
  LET ins == IF clicks > 0
               THEN execute_insert(tbl, datum, prozess, status, uhrzeit,
                                   operator, operation, exc)
               ELSE [table |-> tbl, raised |-> NoExc]
  IN  IF ins.raised # NoExc
        THEN [tracking |-> ins.table, children |-> Alert(ins.raised),
              figure |-> EmptyFig, exc |-> ins.raised, loaded |-> FALSE,
              propagated |-> FALSE]
        ELSE LET df == load_data(ins.table)
             IN  [tracking |-> ins.table, children |-> from_dataframe(df),
                  figure |-> IF ~empty(df) THEN bar(df) ELSE EmptyFig,
                  exc |-> NoExc, loaded |-> TRUE, propagated |-> FALSE]

\* Variant: status and Operation change places in the State list.
StateArgs_swapped(f) ==
  <<f.datum, f.uhrzeit, f.Operator, f.status, f.Operation, f.prozess>>

\* The State list of the decorator: the component properties handed to the
\* callback after n_clicks, in this order.
StateArgs(f) ==
  <<f.datum, f.uhrzeit, f.Operator, f.Operation, f.status, f.prozess>>

\* One request to the callback with click count c, the current component
\* values, and exc the exception of its insert statement.
Invoke(c, f, exc) ==
  LET a == StateArgs(f)
      r == update_table_and_chart(tracking, c, a[1], a[2], a[3], a[4], a[5],
                                  a[6], exc)
  IN  /\ tracking' = r.tracking
      /\ out' = IF r.propagated THEN out ELSE <<r.children, r.figure>>
      /\ last' = [n_clicks |-> c, exc |-> r.exc, loaded |-> r.loaded,
                  propagated |-> r.propagated]
      /\ calls' = IF calls < 2 THEN calls + 1 ELSE calls
      /\ sent' = IF c > 0 /\ r.exc = NoExc THEN Append(sent, f) ELSE sent

\* ------------------------------------------------------------------ actions
\* The file of an earlier run, or none; no process, no page.
Init ==
  /\ running = FALSE
  /\ tracking \in SeqUpTo(Rows, MaxRows)
  /\ pageOpen = FALSE
  /\ form = InitialForm
  /\ n_clicks = 0
  /\ out = <<None, None>>
  /\ last = [n_clicks |-> 0, exc |-> NoExc, loaded |-> FALSE,
             propagated |-> FALSE]
  /\ calls = 0
  /\ sent = <<>>
  /\ dropped = 0

\* Module-level startup: connect, drop the table, create it.
Startup ==
  /\ ~running
  /\ running' = TRUE
  /\ dropped' = Len(tracking)
  /\ tracking' = DropAndCreate(tracking)
  /\ calls' = 0
  /\ sent' = <<>>
  /\ UNCHANGED <<pageOpen, form, n_clicks, out, last>>

\* The browser loads the page: the layout's initial component values, and
\* the callback's initial call with n_clicks = 0.
PageLoad ==
  /\ running
  /\ pageOpen' = TRUE
  /\ form' = InitialForm
  /\ n_clicks' = 0
  /\ Invoke(0, InitialForm, NoExc)
  /\ UNCHANGED <<running, dropped>>

\* The user edits the form; no callback listens to these components.
SetForm ==
  /\ pageOpen
  /\ \E f \in Forms : form' = f
  /\ UNCHANGED <<running, tracking, pageOpen, n_clicks, out, last, calls,
                 sent, dropped>>

\* The user clicks the submit button: n_clicks goes up by one and the
\* callback runs with the current component values.
Submit ==
  /\ running
  /\ pageOpen
  /\ n_clicks < MaxClicks
  /\ Len(tracking) < MaxRows
  /\ n_clicks' = n_clicks + 1
  /\ \E exc \in {NoExc} \cup Errors : Invoke(n_clicks + 1, form, exc)
  /\ UNCHANGED <<running, pageOpen, form, dropped>>

\* The server stops and the connection is closed. The inserts were never
\* committed by the program: they stay in the file when the driver commits
\* each statement by itself, and are rolled back otherwise.
Shutdown ==
  /\ running
  /\ running' = FALSE
  /\ tracking' \in {tracking, <<>>}
  /\ UNCHANGED <<pageOpen, form, n_clicks, out, last, calls, sent, dropped>>

Next == Startup \/ PageLoad \/ SetForm \/ Submit \/ Shutdown

Spec == Init /\ [][Next]_vars

\* ------------------------------------------------------------------ properties
\* The latest invocation of the callback belongs to the running process.
Invoked == running /\ calls > 0

\* A step in which the callback handles a click on the submit button.
SubmitStep == n_clicks' = n_clicks + 1

\* The row a form's values make, column by column.
FormRow(f) ==
  <<f.datum, f.prozess, f.status, f.uhrzeit, f.Operator, f.Operation>>

\* The categories on the x axis of a figure: the x values of its bars; a
\* bar whose x is null has no category.
Categories(fig) ==
  IF fig.kind = "bar" THEN {fig.x[i] : i \in 1..Len(fig.x)} \ {None} ELSE {}

\* The operators selected in the rows of a table; NULL is no operator.
OperatorsPresent(tbl) ==
  {tbl[i][Col("operator")] : i \in 1..Len(tbl)} \ {None}

\* C1: a submit whose insert statement does not raise leaves the table with
\* exactly one row more than it had before the callback.
C1_SubmitAddsOneRow ==
  [][(SubmitStep /\ last'.exc = NoExc)
       => Len(tracking') = Len(tracking) + 1]_vars

C1_Witness ==
  /\ Invoked /\ last.n_clicks > 0 /\ last.exc = NoExc
  /\ Len(tracking) >= 2

C4_InsertErrorIsShown ==
  [][(SubmitStep /\ last'.exc # NoExc)
       => /\ ~last'.propagated
          /\ out'[1].kind = "Alert"
          /\ out'[1].children[2] = last'.exc
          /\ out'[1].children[2] \in Errors
          /\ tracking' = tracking]_vars

C4_Witness ==
  /\ Invoked /\ last.n_clicks > 0 /\ last.exc \in Errors
  /\ out[1].kind = "Alert" /\ out[1].children[2] = last.exc
  /\ tracking # <<>>

C6_StartsEmpty ==
  running =>
    /\ calls = 0 => tracking = <<>>
    /\ (calls = 1 /\ last.n_clicks = 0)
         => /\ out[1].kind = "Table"
            /\ out[1].body = <<>>
            /\ tracking = <<>>

C6_Witness ==
  /\ running /\ dropped > 0
  /\ calls = 1 /\ last.n_clicks = 0
  /\ out[1].kind = "Table" /\ out[1].body = <<>>

\* C7: while the process runs, every step keeps every row with its six
\* fields and either leaves the table as it is or appends exactly one row.
C7_RowsAreKept ==
  [][(running /\ running')
       => \/ tracking' = tracking
          \/ /\ Len(tracking') = Len(tracking) + 1
             /\ SubSeq(tracking', 1, Len(tracking)) = tracking]_vars

C7_Witness ==
  /\ Invoked /\ last.n_clicks > 1
  /\ Len(tracking) >= 2 /\ tracking[1] # tracking[2]

C10_FieldsInTheirColumns ==
  [][(SubmitStep /\ last'.exc = NoExc)
       => LET row == tracking'[Len(tracking')]
          IN  /\ row[Col("datum")] = form.datum
              /\ row[Col("uhrzeit")] = form.uhrzeit
              /\ row[Col("operator")] = form.Operator
              /\ row[Col("operation")] = form.Operation
              /\ row[Col("status")] = form.status
              /\ row[Col("prozess")] = form.prozess]_vars

C10_Witness ==
  /\ Invoked /\ last.n_clicks > 0 /\ last.exc = NoExc
  /\ tracking # <<>>
  /\ tracking[Len(tracking)] =
       <<"2024-05-02", "Charge 7", "Erledigt", "09:15", "Houssam", "PCR">>
  /\ form.Operator = "Houssam"

====
